---- MODULE Spec2Model ----
(***************************************************************************)
(* Model of scraper.py (Magnolia Storage competitor price scraper).        *)
(*                                                                         *)
(* A page is a sequence of tokens.  Each token stands for one fragment of  *)
(* page text, the fragments being separated by markup or white space that  *)
(* holds no digit, no "x", no "$" and no ">":                              *)
(*   dim      a dimension such as  5' x 10'      (w and d: the digits of   *)
(*            width and depth as written, leading zeros included)          *)
(*   usd      a price such as      $59.00        (c hundredths)            *)
(*   dollar   a "$" that no digit follows                                  *)
(*   attr     data-pricebook-price="41.0"        (c hundredths)            *)
(*   badattr  data-pricebook-price="."   (matches [\d.]+, not a number)    *)
(*   gt       a ">"                                                        *)
(*   txt      any other text                                               *)
(* The regular expressions of the scrapers are modelled by what            *)
(* re.findall returns on such a page: leftmost match first, lazy           *)
(* quantifiers taking the nearest continuation, scanning resumed after     *)
(* the end of each match.                                                  *)
(*                                                                         *)
(* Python None / JSON null is the value None below; prices are never       *)
(* negative, so it differs from every price, 0 included.                   *)
(***************************************************************************)
EXTENDS Integers, Sequences, FiniteSets, TLC

None == -1

\* Bounds of the model.
MaxTokens == 4
MaxStore == 2

Sizes == <<"5x10", "10x10", "10x15", "10x20", "10x30">>

SizeSet == {Sizes[n] : n \in 1..Len(Sizes)}

EmptyPricing == [s \in SizeSet |-> None]

SetMin(S) == CHOOSE m \in S : \A n \in S : m <= n

\* ------------------------------------------------------------------ tokens

Dim(w, d) == [t |-> "dim", w |-> w, d |-> d, c |-> 0]
Usd(c) == [t |-> "usd", w |-> "", d |-> "", c |-> c]
Attr(c) == [t |-> "attr", w |-> "", d |-> "", c |-> c]
BadAttr == [t |-> "badattr", w |-> "", d |-> "", c |-> 0]
Dollar == [t |-> "dollar", w |-> "", d |-> "", c |-> 0]
Gt == [t |-> "gt", w |-> "", d |-> "", c |-> 0]
Txt == [t |-> "txt", w |-> "", d |-> "", c |-> 0]

\* A matched (w, d, price) group: w and d are the captured digit strings; num is
\* FALSE when the price text is not a number.
Block(w, d, c, num) == [w |-> w, d |-> d, c |-> c, num |-> num]

\* First position >= i of page s whose token type is in T, or 0.
NextOf(s, i, T) ==
  LET P == {k \in i..Len(s) : s[k].t \in T}
  IN IF P = {} THEN 0 ELSE SetMin(P)

\* f"{w}x{d}" of the captured digit strings: "05" and "10" give "05x10".
Key(w, d) == w \o "x" \o d

\* int(w) of a digit string: leading zeros do not count.
IntOf(w) ==
  CHOOSE v \in 0..99 : w \in {ToString(v), "0" \o ToString(v), "00" \o ToString(v)}

\* int(round(price)) of a price of c hundredths: Python 3 rounds halves to even.
Round(c) ==
  LET q == c \div 100
      r == c % 100
  IN IF r < 50 THEN q
     ELSE IF r > 50 THEN q + 1
     ELSE IF q % 2 = 0 THEN q ELSE q + 1

\* ------------------------------------------------------------------ fetch

\* What the network does for one request: the page text, or an exception.
Response(ok, html) == [ok |-> ok, html |-> html]

\* fetch(): the text, or None on any exception.
Fetch(resp) == [none |-> ~resp.ok, text |-> IF resp.ok THEN resp.html ELSE <<>>]

\* "not html": None and the empty string are both falsy.
NotHtml(h) == h.none \/ h.text = <<>>

\* What a scraper call gives main: None, a pricing table, or an exception.
ScrapeNone == [status |-> "none", pricing |-> EmptyPricing]
ScrapeRaise == [status |-> "raise", pricing |-> EmptyPricing]
ScrapeOk(p) == [status |-> "ok", pricing |-> p]

\* ------------------------------------------------------------------ patterns

\* (\d+)...x...(\d+)...[^$]*?\$(\d+(?:\.\d{2})?) : a dimension, then the first
\* "$" after it, which must start a price.
RECURSIVE FindDimUsd(_, _)
FindDimUsd(s, i) ==
  LET j == NextOf(s, i, {"dim"})
      k == IF j = 0 THEN 0 ELSE NextOf(s, j + 1, {"usd", "dollar"})
  IN IF j = 0 \/ k = 0 THEN <<>>
     ELSE IF s[k].t = "usd"
          THEN <<Block(s[j].w, s[j].d, s[k].c, TRUE)>> \o FindDimUsd(s, k + 1)
          ELSE FindDimUsd(s, k + 1)

\* (\d+)...x...(\d+)....*?\$(\d+(?:\.\d{2})?) : a dimension, then the first price
\* after it, whatever lies between.
RECURSIVE FindDimAnyUsd(_, _)
FindDimAnyUsd(s, i) ==
  LET j == NextOf(s, i, {"dim"})
      k == IF j = 0 THEN 0 ELSE NextOf(s, j + 1, {"usd"})
  IN IF j = 0 \/ k = 0 THEN <<>>
     ELSE <<Block(s[j].w, s[j].d, s[k].c, TRUE)>> \o FindDimAnyUsd(s, k + 1)

\* (\d+)...x...(\d+)...[^$]*?data-pricebook-price="([\d.]+)" : a dimension, then
\* the first price attribute after it with no "$" between.
RECURSIVE FindDimAttr(_, _)
FindDimAttr(s, i) ==
  LET j == NextOf(s, i, {"dim"})
      k == IF j = 0 THEN 0 ELSE NextOf(s, j + 1, {"attr", "badattr", "usd", "dollar"})
  IN IF j = 0 \/ k = 0 THEN <<>>
     ELSE IF s[k].t \in {"attr", "badattr"}
          THEN <<Block(s[j].w, s[j].d, s[k].c, s[k].t = "attr")>> \o FindDimAttr(s, k + 1)
          ELSE FindDimAttr(s, k + 1)

\* data-pricebook-price="([\d.]+)"[^>]*>.*?(\d+)...x...(\d+) : a price attribute,
\* the first ">" after it, then the first dimension after that; the groups are
\* reordered to (w, d, price) as on line 80.
RECURSIVE FindAttrDim(_, _)
FindAttrDim(s, i) ==
  LET j == NextOf(s, i, {"attr", "badattr"})
      g == IF j = 0 THEN 0 ELSE NextOf(s, j + 1, {"gt"})
      m == IF g = 0 THEN 0 ELSE NextOf(s, g + 1, {"dim"})
  IN IF m = 0 THEN <<>>
     ELSE <<Block(s[m].w, s[m].d, s[j].c, s[j].t = "attr")>> \o FindAttrDim(s, m + 1)

\* ------------------------------------------------------------------ dicts

EmptyDict == [x \in {} |-> None]

\* d[k] = v
Put(d, k, v) == [x \in DOMAIN d \cup {k} |-> IF x = k THEN v ELSE d[x]]

\* "pricing[key] = ..." (line 181)
KeepLast(sp, key, c) == Put(sp, key, c)

\* "if key not in size_prices or price < size_prices[key]: size_prices[key] = price"
KeepCheapest(sp, key, c) ==
  IF key \notin DOMAIN sp \/ c < sp[key] THEN Put(sp, key, c) ELSE sp

\* "for size, price in size_prices.items(): pricing[size] = int(round(price))",
\* on the five-key table of Nones the scraper starts from.  The variant starts
\* from an empty table.
FillPricingSparse(sp) == [s \in DOMAIN sp |-> Round(sp[s])]
FillPricing(sp) ==
  [s \in SizeSet |-> IF s \in DOMAIN sp THEN Round(sp[s]) ELSE None]

\* A size key that is Python None (no mapping).
NoSize == ""

\* ------------------------------------------------------------------ scrape_public_storage

\* size_map
PublicSizeMap ==
  [p \in {<<5, 5>>, <<5, 6>>, <<5, 8>>, <<5, 10>>, <<5, 14>>, <<5, 15>>,
          <<7, 14>>, <<10, 10>>, <<10, 14>>, <<10, 15>>, <<10, 17>>,
          <<10, 19>>, <<10, 20>>, <<10, 30>>, <<10, 40>>, <<12, 28>>} |->
     IF p[1] = 5 THEN "5x10"
     ELSE IF p \in {<<7, 14>>, <<10, 10>>, <<10, 14>>} THEN "10x10"
     ELSE IF p \in {<<10, 15>>, <<10, 17>>} THEN "10x15"
     ELSE IF p \in {<<10, 19>>, <<10, 20>>} THEN "10x20"
     ELSE "10x30"]

\* size_map.get((w, d))
PublicMapped(w, d) ==
  IF <<w, d>> \in DOMAIN PublicSizeMap THEN PublicSizeMap[<<w, d>>] ELSE NoSize

\* The three attempts at pairing dimensions with prices, in order.  The third
\* pairs nothing: it only counts, and leaves unit_blocks empty.
PublicUnitBlocks(html) ==
  LET first == FindDimAttr(html, 1)
  IN IF first # <<>> THEN first ELSE FindAttrDim(html, 1)

\* The loop of lines 103-109 from block n on: float(price) raises ValueError on
\* text that is no number, before the size is looked up.
RECURSIVE PublicLoop(_, _, _)
PublicLoop(blocks, n, sp) ==
  IF n > Len(blocks) THEN [raised |-> FALSE, sp |-> sp]
  ELSE IF ~blocks[n].num THEN [raised |-> TRUE, sp |-> sp]
  ELSE LET mapped == PublicMapped(IntOf(blocks[n].w), IntOf(blocks[n].d))
       IN PublicLoop(blocks, n + 1,
                     IF mapped # NoSize THEN KeepCheapest(sp, mapped, blocks[n].c) ELSE sp)

ScrapePublicStorage(resp) ==
  LET html == Fetch(resp)
      blocks == PublicUnitBlocks(html.text)
      prices_raw == {k \in 1..Len(html.text) : html.text[k].t \in {"attr", "badattr"}}
      loop == PublicLoop(blocks, 1, EmptyDict)
  IN IF NotHtml(html) THEN ScrapeNone
     ELSE IF blocks = <<>> /\ prices_raw = {} THEN ScrapeOk(EmptyPricing)
     ELSE IF loop.raised THEN ScrapeRaise
     ELSE ScrapeOk(FillPricing(loop.sp))

\* ------------------------------------------------------------------ scrape_lockaway

\* lockaway_map.get(key): "8x4" maps to None, as does every key not in the map.
LockawayMapped(key) ==
  IF key = "8x8" THEN "5x10" ELSE IF key = "8x12" THEN "10x10" ELSE NoSize

\* First loop, lines 137-142: the keys that are canonical as they stand.
RECURSIVE LockawayDirect(_, _, _)
LockawayDirect(blocks, n, sp) ==
  IF n > Len(blocks) THEN sp
  ELSE LET key == Key(blocks[n].w, blocks[n].d)
       IN LockawayDirect(blocks, n + 1,
                         IF key \in SizeSet THEN KeepCheapest(sp, key, blocks[n].c) ELSE sp)

\* Second loop, lines 147-151: the mapped keys, into the same size_prices.
RECURSIVE LockawayViaMap(_, _, _)
LockawayViaMap(blocks, n, sp) ==
  IF n > Len(blocks) THEN sp
  ELSE LET mapped == LockawayMapped(Key(blocks[n].w, blocks[n].d))
       IN LockawayViaMap(blocks, n + 1,
                         IF mapped # NoSize THEN KeepCheapest(sp, mapped, blocks[n].c) ELSE sp)

ScrapeLockaway(resp) ==
  LET html == Fetch(resp)
      blocks == FindDimAnyUsd(html.text, 1)
      sp == LockawayViaMap(blocks, 1, LockawayDirect(blocks, 1, EmptyDict))
  IN IF NotHtml(html) THEN ScrapeNone
     ELSE ScrapeOk(FillPricing([k \in DOMAIN sp \cap SizeSet |-> sp[k]]))

\* ------------------------------------------------------------------ scrape_honea_egypt

\* Lines 178-181: every matching block assigns pricing[key]; nothing is compared.
RECURSIVE HoneaLoop(_, _, _)
HoneaLoop(blocks, n, sp) ==
  IF n > Len(blocks) THEN sp
  ELSE LET key == Key(blocks[n].w, blocks[n].d)
       IN HoneaLoop(blocks, n + 1,
                    IF key \in SizeSet THEN KeepLast(sp, key, blocks[n].c) ELSE sp)

ScrapeHoneaEgypt(resp) ==
  LET html == Fetch(resp)
      blocks == FindDimUsd(html.text, 1)
  IN IF NotHtml(html) THEN ScrapeNone
     ELSE ScrapeOk(FillPricing(HoneaLoop(blocks, 1, EmptyDict)))

\* ------------------------------------------------------------------ scrape_montgomery

RECURSIVE MontgomeryLoop(_, _, _)
MontgomeryLoop(blocks, n, sp) ==
  IF n > Len(blocks) THEN sp
  ELSE LET key == Key(blocks[n].w, blocks[n].d)
       IN MontgomeryLoop(blocks, n + 1,
                         IF key \in SizeSet THEN KeepCheapest(sp, key, blocks[n].c) ELSE sp)

ScrapeMontgomery(resp) ==
  LET html == Fetch(resp)
      blocks == FindDimUsd(html.text, 1)
  IN IF NotHtml(html) THEN ScrapeNone
     ELSE ScrapeOk(FillPricing(MontgomeryLoop(blocks, 1, EmptyDict)))

\* ------------------------------------------------------------------ scrape_woodlands_sao

\* Lines 238-242
WoodlandsMapped(key) ==
  IF key = "12x10" THEN "10x10" ELSE IF key = "12x30" THEN "10x30" ELSE key

RECURSIVE WoodlandsLoop(_, _, _)
WoodlandsLoop(blocks, n, sp) ==
  IF n > Len(blocks) THEN sp
  ELSE LET mapped == WoodlandsMapped(Key(blocks[n].w, blocks[n].d))
       IN WoodlandsLoop(blocks, n + 1,
                        IF mapped \in SizeSet THEN KeepCheapest(sp, mapped, blocks[n].c) ELSE sp)

ScrapeWoodlandsSao(resp) ==
  LET html == Fetch(resp)
      blocks == FindDimUsd(html.text, 1)
  IN IF NotHtml(html) THEN ScrapeNone
     ELSE ScrapeOk(FillPricing(WoodlandsLoop(blocks, 1, EmptyDict)))

\* The (w, d, price) groups a site's scraper iterates over.
Observations(s, html) ==
  CASE s = "lockaway" -> FindDimAnyUsd(html, 1)
    [] s = "public_storage" -> PublicUnitBlocks(html)
    [] s \in {"honea_egypt", "montgomery", "woodlands_sao"} -> FindDimUsd(html, 1)

\* The canonical size a site's scraper files a raw (w, d) under, or NoSize.
Normalize(s, w, d) ==
  LET key == Key(w, d)
  IN CASE s = "lockaway" -> IF key \in SizeSet THEN key ELSE LockawayMapped(key)
       [] s = "public_storage" -> PublicMapped(IntOf(w), IntOf(d))
       [] s \in {"honea_egypt", "montgomery"} -> IF key \in SizeSet THEN key ELSE NoSize
       [] s = "woodlands_sao" ->
            IF WoodlandsMapped(key) \in SizeSet THEN WoodlandsMapped(key) ELSE NoSize

\* The scraper of a site, as the lambdas of scrape_targets call it.
Scrape(s, resp) ==
  CASE s = "lockaway" -> ScrapeLockaway(resp)
    [] s = "public_storage" -> ScrapePublicStorage(resp)
    [] s = "honea_egypt" -> ScrapeHoneaEgypt(resp)
    [] s = "montgomery" -> ScrapeMontgomery(resp)
    [] s = "woodlands_sao" -> ScrapeWoodlandsSao(resp)

Sites == {"lockaway", "public_storage", "honea_egypt", "montgomery", "woodlands_sao"}

\* ------------------------------------------------------------------ configuration

NoScraper == "none"

Target(name, hasUrl, scraper) == [name |-> name, url |-> hasUrl, scraper |-> scraper]

\* scrape_targets, in order.
ScrapeTargets ==
  <<Target("Lockaway Storage", TRUE, "lockaway"),
    Target("Public Storage (FM 1488)", TRUE, "public_storage"),
    Target("Public Storage (FM 2978)", TRUE, "public_storage"),
    Target("SmartStop Self Storage", FALSE, NoScraper),
    Target("Honea Egypt Self Storage", TRUE, "honea_egypt"),
    Target("Montgomery Self Storage", TRUE, "montgomery"),
    Target("Woodlands Storage & Office", TRUE, "woodlands_sao"),
    Target("Storage King USA", FALSE, NoScraper)>>

TargetNames == {ScrapeTargets[n].name : n \in 1..Len(ScrapeTargets)}

\* ------------------------------------------------------------------ inputs

\* The page fragments a site's pages are drawn from; one dimension of each site
\* is written with a leading zero.
SiteTokens(s) ==
  IF s = "public_storage"
  THEN {Dim("5", "10"), Dim("05", "14"), Dim("8", "8"),
        Attr(4100), Attr(4250), BadAttr, Gt, Dollar}
  ELSE {Dim("5", "10"), Dim("05", "10"), Dim("10", "10"),
        Usd(4150), Usd(4250), Usd(5900), Dollar, Txt}
       \cup (IF s = "lockaway" THEN {Dim("8", "8")}
             ELSE IF s = "woodlands_sao" THEN {Dim("12", "10")} ELSE {Dim("8", "4")})

SeqsUpTo(S, n) == UNION {[1..m -> S] : m \in 0..n}

\* Every answer of the network to a scraper called on its own.
SiteResponses(s) ==
  {Response(FALSE, <<>>)} \cup {Response(TRUE, h) : h \in SeqsUpTo(SiteTokens(s), MaxTokens)}

\* The answers of the network during a run of main(): a failed fetch, an empty page, a
\* page with no dimension and no price, a page pairing 5x10 with a price, and
\* (Public Storage) a page whose price attribute is no number.
RunResponses(s) ==
  {Response(FALSE, <<>>), Response(TRUE, <<>>), Response(TRUE, <<Txt>>),
   Response(TRUE, <<Dim("5", "10"), Attr(4100), Usd(5900)>>)}
  \cup (IF s = "public_storage" THEN {Response(TRUE, <<Dim("5", "10"), BadAttr>>)} ELSE {})

NoResponse == Response(FALSE, <<>>)

\* Competitor entries a stored snapshot may hold: configured competitors with
\* metadata (two of them of one name), one no longer configured, one without a
\* "name" key, and one whose pricing lacks keys.
StoreEntries ==
  {[name |-> "Lockaway Storage", address |-> "addr-1",
    pricing |-> [EmptyPricing EXCEPT !["5x10"] = 59, !["10x15"] = 89]],
   [name |-> "SmartStop Self Storage", address |-> "addr-2",
    pricing |-> [EmptyPricing EXCEPT !["10x10"] = 120]],
   [name |-> "Lockaway Storage", address |-> "addr-5", pricing |-> EmptyPricing],
   [name |-> "Ghost Storage", address |-> "addr-3", pricing |-> EmptyPricing],
   [address |-> "addr-4", pricing |-> EmptyPricing],
   [name |-> "Public Storage (FM 1488)", pricing |-> [k \in {"5x10"} |-> 41]]}

\* data.json: absent, not JSON, zero-length after open(..., "w"), or a snapshot.
FileMissing == [kind |-> "missing", lastUpdated |-> None, competitors |-> <<>>]
FileCorrupt == [kind |-> "corrupt", lastUpdated |-> None, competitors |-> <<>>]
FileTruncated == [kind |-> "truncated", lastUpdated |-> None, competitors |-> <<>>]
FileJson(lastUpdated, competitors) ==
  [kind |-> "json", lastUpdated |-> lastUpdated, competitors |-> competitors]

InitialFiles ==
  {FileMissing, FileCorrupt} \cup {FileJson(0, cs) : cs \in SeqsUpTo(StoreEntries, MaxStore)}

\* A competitor entry is well formed when it has a name and a five-key pricing.
WellFormedEntry(e) ==
  /\ "name" \in DOMAIN e
  /\ "pricing" \in DOMAIN e
  /\ DOMAIN e["pricing"] = SizeSet

WellFormedFile(f) ==
  \/ f.kind = "missing"
  \/ /\ f.kind = "json"
     /\ \A n \in 1..Len(f.competitors) : WellFormedEntry(f.competitors[n])

\* ------------------------------------------------------------------ state

VARIABLES
  file,       \* data.json on disk
  before,     \* data.json as it was when the current run started
  now,        \* the clock: the time stamp a run writes
  run,        \* number of the current run
  pc,         \* where main() is: start, loaded, loop, write, dump, report, done, aborted, killed
  exit,       \* exit status of the process, None while it runs
  data,       \* main's data
  existing,   \* main's existing: name -> stored entry
  idx,        \* index in scrape_targets of the next target
  updated,    \* main's updated_competitors
  changes,    \* main's changes
  results,    \* what each processed target's extraction gave (skip, none, ok)
  fetched,    \* names of the targets fetch() was called for
  lastResp,   \* the network's answer to the latest fetch
  replay,     \* results of the previous run, which a rerun is given again
  site,       \* a scraper called on its own: the site
  page,       \* a scraper called on its own: the network's answer
  scraped     \* a scraper called on its own: what it returned

vars == <<file, before, now, run, pc, exit, data, existing, idx, updated, changes,
          results, fetched, lastResp, replay, site, page, scraped>>

mem == <<data, existing, idx, updated, changes, results, fetched, lastResp>>
pure == <<site, page, scraped>>

MaxRuns == 2

EmptyData == [lastUpdated |-> None, competitors |-> <<>>]

\* d.get(k, default)
Get(d, k, default) == IF k \in DOMAIN d THEN d[k] ELSE default

\* json.load of a file that holds JSON, and json.dump: integers, null, strings,
\* lists and string-keyed objects come back as they were written.
JsonLoad(f) == [lastUpdated |-> f.lastUpdated, competitors |-> f.competitors]
JsonDump(d) == FileJson(d.lastUpdated, d.competitors)

\* The process is gone: an uncaught exception (status 1) or an external kill.
MemoryGone ==
  /\ data' = EmptyData
  /\ existing' = EmptyDict
  /\ idx' = 1
  /\ updated' = <<>>
  /\ changes' = <<>>
  /\ results' = <<>>
  /\ fetched' = {}
  /\ lastResp' = NoResponse

Abort ==
  /\ pc' = "aborted"
  /\ exit' = 1
  /\ MemoryGone

Init ==
  /\ file \in InitialFiles
  /\ before = file
  /\ now = 1
  /\ run = 1
  /\ pc = "start"
  /\ exit = None
  /\ data = EmptyData
  /\ existing = EmptyDict
  /\ idx = 1
  /\ updated = <<>>
  /\ changes = <<>>
  /\ results = <<>>
  /\ fetched = {}
  /\ lastResp = NoResponse
  /\ replay = <<>>
  /\ site = ""
  /\ page = NoResponse
  /\ scraped = ScrapeNone

\* ------------------------------------------------------------------ main

\* Lines 262-270: json.load raises on a file that is not JSON.

LoadStore ==
  /\ pc = "start"
  /\ IF file.kind = "missing"
     THEN /\ data' = EmptyData
          /\ pc' = "loaded"
          /\ UNCHANGED <<exit, existing, idx, updated, changes, results, fetched, lastResp>>
     ELSE IF file.kind = "json"
     THEN /\ data' = JsonLoad(file)
          /\ pc' = "loaded"
          /\ UNCHANGED <<exit, existing, idx, updated, changes, results, fetched, lastResp>>
     ELSE Abort
  /\ UNCHANGED <<file, before, now, run, replay>>
  /\ UNCHANGED pure

\* Lines 316-319: existing[c["name"]] = c, a later entry replacing an earlier one
\* of the same name.
RECURSIVE ExistingOf(_, _, _)
ExistingOf(cs, n, ex) ==
  IF n > Len(cs) THEN ex ELSE ExistingOf(cs, n + 1, Put(ex, cs[n]["name"], cs[n]))

BuildExisting ==
  /\ pc = "loaded"
  /\ IF \E n \in 1..Len(data.competitors) : "name" \notin DOMAIN data.competitors[n]
     THEN Abort
     ELSE /\ existing' = ExistingOf(data.competitors, 1, EmptyDict)
          /\ pc' = "loop"
          /\ UNCHANGED <<exit, data, idx, updated, changes, results, fetched, lastResp>>
  /\ UNCHANGED <<file, before, now, run, replay>>
  /\ UNCHANGED pure

\* Lines 326-327.  The variant takes the default whatever is stored.
OldPricingIgnoreStore(ex, name) == EmptyPricing
OldPricing(ex, name) == Get(Get(ex, name, EmptyDict), "pricing", EmptyPricing)

Change(name, size, old_val, new_val) ==
  [name |-> name, size |-> size, old |-> old_val, new |-> new_val]

\* Lines 340-344: one entry per size whose value differs, in the order of Sizes.
\* The variant leaves the comparison out.
DiffAll(name, old_pricing, new_pricing) ==
  LET F[n \in 0..Len(Sizes)] ==
        IF n = 0 THEN <<>>
        ELSE Append(F[n - 1],
                    Change(name, Sizes[n], Get(old_pricing, Sizes[n], None),
                           Get(new_pricing, Sizes[n], None)))
  IN F[Len(Sizes)]
Diff(name, old_pricing, new_pricing) ==
  LET F[n \in 0..Len(Sizes)] ==
        IF n = 0 THEN <<>>
        ELSE LET old_val == Get(old_pricing, Sizes[n], None)
                 new_val == Get(new_pricing, Sizes[n], None)
             IN IF old_val # new_val
                THEN Append(F[n - 1], Change(name, Sizes[n], old_val, new_val))
                ELSE F[n - 1]
  IN F[Len(Sizes)]

\* Line 329: what decides that a target is skipped.
Skipped(target) == target.scraper = NoScraper

\* Line 331: the pricing of a skipped target.  The variant starts it afresh.
SkippedPricingReset(old_pricing) == EmptyPricing
SkippedPricing(old_pricing) == old_pricing

\* Lines 335-337: the pricing kept when the scraper returns None.  The variant
\* starts it afresh.
FailedPricingReset(old_pricing) == EmptyPricing
FailedPricing(old_pricing) == old_pricing

\* One iteration of the loop of lines 324-349.  In a rerun the network's answer
\* is one that makes the extraction come out as in the run before.
ProcessTarget ==
  /\ pc = "loop"
  /\ idx <= Len(ScrapeTargets)
  /\ LET target == ScrapeTargets[idx]
         name == target.name
         old_pricing == OldPricing(existing, name)
     IN IF Skipped(target)
        THEN /\ updated' = Append(updated, [name |-> name, pricing |-> SkippedPricing(old_pricing)])
             /\ results' = Append(results, [status |-> "skip", pricing |-> EmptyPricing])
             /\ idx' = idx + 1
             /\ UNCHANGED <<pc, exit, data, existing, changes, fetched, lastResp>>
        ELSE \E resp \in RunResponses(target.scraper) :
               LET new == Scrape(target.scraper, resp)
               IN /\ replay # <<>> => new = replay[idx]
                  /\ IF new.status = "raise"
                     THEN Abort
                     ELSE /\ updated' =
                               Append(updated,
                                      [name |-> name,
                                       pricing |-> IF new.status = "none"
                                                   THEN FailedPricing(old_pricing)
                                                   ELSE new.pricing])
                          /\ changes' =
                               IF new.status = "none" THEN changes
                               ELSE changes \o Diff(name, old_pricing, new.pricing)
                          /\ results' = Append(results, new)
                          /\ fetched' = fetched \cup {name}
                          /\ lastResp' = resp
                          /\ idx' = idx + 1
                          /\ UNCHANGED <<pc, exit, data, existing>>
  /\ UNCHANGED <<file, before, now, run, replay>>
  /\ UNCHANGED pure

\* Lines 357-363: the stored entry with its pricing replaced, or the new entry.
\* The variant always takes the new entry.
MergeDropMetadata(ex, u) == u
MergeOne(ex, u) ==
  IF u.name \in DOMAIN ex THEN Put(ex[u.name], "pricing", u.pricing) ELSE u

\* Lines 351-365
MergeCompetitors ==
  /\ pc = "loop"
  /\ idx > Len(ScrapeTargets)
  /\ data' = [lastUpdated |-> now,
              competitors |-> [n \in 1..Len(updated) |-> MergeOne(existing, updated[n])]]
  /\ pc' = "write"
  /\ UNCHANGED <<exit, existing, idx, updated, changes, results, fetched, lastResp>>
  /\ UNCHANGED <<file, before, now, run, replay>>
  /\ UNCHANGED pure

\* Line 367: open(data_path, "w") leaves a zero-length file.
OpenStore ==
  /\ pc = "write"
  /\ file' = FileTruncated
  /\ pc' = "dump"
  /\ UNCHANGED <<before, now, run, replay, exit>>
  /\ UNCHANGED mem
  /\ UNCHANGED pure

\* Line 368: json.dump, and the file closed at the end of the with block.
DumpStore ==
  /\ pc = "dump"
  /\ file' = JsonDump(data)
  /\ pc' = "report"
  /\ UNCHANGED <<before, now, run, replay, exit>>
  /\ UNCHANGED mem
  /\ UNCHANGED pure

\* Lines 370-380: the report is printed and main returns 0.
Report ==
  /\ pc = "report"
  /\ pc' = "done"
  /\ exit' = 0
  /\ UNCHANGED <<file, before, now, run, replay>>
  /\ UNCHANGED mem
  /\ UNCHANGED pure

\* The process is killed from outside, at any point of a run.
Kill ==
  /\ pc \in {"start", "loaded", "loop", "write", "dump", "report"}
  /\ pc' = "killed"
  /\ MemoryGone
  /\ UNCHANGED <<file, before, now, run, replay, exit>>
  /\ UNCHANGED pure

\* The next scheduled run, on the store the run before wrote, the network
\* answering so that every extraction comes out as it did in that run.
Rerun ==
  /\ pc = "done"
  /\ run < MaxRuns
  /\ run' = run + 1
  /\ now' = now + 1
  /\ before' = file
  /\ replay' = results
  /\ pc' = "start"
  /\ exit' = None
  /\ MemoryGone
  /\ UNCHANGED file
  /\ UNCHANGED pure

Next ==
  \/ LoadStore
  \/ BuildExisting
  \/ ProcessTarget
  \/ MergeCompetitors
  \/ OpenStore
  \/ DumpStore
  \/ Report
  \/ Kill

Spec == Init /\ [][Next]_vars

NextTwice == Next \/ Rerun

SpecTwice == Init /\ [][NextTwice]_vars

\* ------------------------------------------------------------------ the scrapers alone

InitScrape ==
  /\ site \in Sites
  /\ page \in SiteResponses(site)
  /\ scraped = ScrapeNone
  /\ file = FileMissing
  /\ before = FileMissing
  /\ now = 1
  /\ run = 1
  /\ pc = "scrape"
  /\ exit = None
  /\ data = EmptyData
  /\ existing = EmptyDict
  /\ idx = 1
  /\ updated = <<>>
  /\ changes = <<>>
  /\ results = <<>>
  /\ fetched = {}
  /\ lastResp = NoResponse
  /\ replay = <<>>

\* One call of a site's scraper.
ScrapeCall ==
  /\ pc = "scrape"
  /\ scraped' = Scrape(site, page)
  /\ pc' = "scraped"
  /\ UNCHANGED <<file, before, now, run, exit, replay, site, page>>
  /\ UNCHANGED mem

SpecScrape == InitScrape /\ [][ScrapeCall]_vars

\* ------------------------------------------------------------------ properties

SetMax(S) == CHOOSE m \in S : \A n \in S : n <= m

\* Positions in the store the run started from of the entries named name.
PrevPlaces(name) ==
  {n \in 1..Len(before.competitors) :
     /\ "name" \in DOMAIN before.competitors[n]
     /\ before.competitors[n]["name"] = name}

\* The competitor's pricing in the store the run started from: that of the last
\* entry of the name, and the five Nones when there is none.
PrevPricing(name) ==
  IF PrevPlaces(name) = {} THEN EmptyPricing
  ELSE Get(before.competitors[SetMax(PrevPlaces(name))], "pricing", EmptyPricing)

PrevValue(name, size) == Get(PrevPricing(name), size, None)

ChangesFor(name) == SelectSeq(changes, LAMBDA e : e.name = name)

\* Every field of a competitor entry but its pricing.
Metadata(e) == [k \in DOMAIN e \ {"pricing"} |-> e[k]]

\* Prices (in hundredths) of the observations of a page that a site files under size.
PricesFor(s, html, size) ==
  LET obs == Observations(s, html)
  IN {obs[n].c : n \in {m \in 1..Len(obs) : Normalize(s, obs[m].w, obs[m].d) = size}}

\* v is the whole number nearest to c hundredths.
Nearest(v, c) == 100 * v - c <= 50 /\ c - 100 * v <= 50

\* C1: every canonical size of a returned pricing table holds the minimum price
\* among the observations that normalize to that size, rounded to the nearest
\* whole unit, and None when no observation normalizes to it.
C1_MinimumPerSize ==
  (pc = "scraped" /\ scraped.status = "ok") =>
    \A size \in SizeSet :
      LET P == PricesFor(site, page.html, size)
      IN IF P = {} THEN scraped.pricing[size] = None
         ELSE /\ scraped.pricing[size] # None
              /\ Nearest(scraped.pricing[size], SetMin(P))

\* The same for the four scrapers that compare prices (every site but Honea Egypt).
C1_MinimumPerSizeComparing ==
  site # "honea_egypt" => C1_MinimumPerSize

\* The sizes, in the fixed order, at which two pricing tables differ.
DifferingSizes(name, new_pricing) ==
  SelectSeq(Sizes, LAMBDA z : PrevValue(name, z) # Get(new_pricing, z, None))

\* C2: for a competitor whose extraction succeeded, the change entries are exactly
\* one per canonical size whose new value differs from the previous value, each
\* with competitor name, size, old value and new value, in the order 5x10, 10x10,
\* 10x15, 10x20, 10x30; equal sizes produce no entry.
C2_ChangeEntries ==
  \A i \in 1..Len(results) :
    results[i].status = "ok" =>
      LET name == ScrapeTargets[i].name
          d == DifferingSizes(name, updated[i].pricing)
      IN ChangesFor(name) =
           [n \in 1..Len(d) |->
              Change(name, d[n], PrevValue(name, d[n]), updated[i].pricing[d[n]])]

\* Lockaway Storage was extracted: 5x10 stayed 59 (no entry), 10x15 went from 89
\* to None (an entry).
C2_Witness ==
  /\ Len(results) >= 1
  /\ results[1].status = "ok"
  /\ PrevValue("Lockaway Storage", "5x10") = 59
  /\ updated[1].pricing["5x10"] = 59
  /\ ChangesFor("Lockaway Storage") = <<Change("Lockaway Storage", "10x15", 89, None)>>

\* C3: when the scraper returns None, the competitor's pricing in the updated
\* snapshot is its previous pricing, no change entry is recorded for it, and the
\* loop goes on to the next configured competitor.
C3_FailureCarriesForward ==
  \A i \in 1..Len(results) :
    results[i].status = "none" =>
      /\ updated[i].pricing = PrevPricing(ScrapeTargets[i].name)
      /\ ChangesFor(ScrapeTargets[i].name) = <<>>
      /\ (pc = "loop" /\ idx = i + 1 /\ i < Len(ScrapeTargets)) => ENABLED ProcessTarget
      /\ pc = "done" =>
           /\ Len(file.competitors) = Len(ScrapeTargets)
           /\ file.competitors[i]["pricing"] = PrevPricing(ScrapeTargets[i].name)

\* The fetch for Lockaway Storage failed, its stored prices were kept, and a later
\* competitor has been processed.
C3_Witness ==
  /\ Len(results) >= 2
  /\ results[1].status = "none"
  /\ PrevValue("Lockaway Storage", "5x10") = 59
  /\ updated[1].pricing["5x10"] = 59
  /\ results[2].status = "ok"

\* C4: a competitor configured with no source URL or no extraction strategy is
\* never extracted: no fetch is made for it, its previous pricing is carried
\* forward, and it yields no change entry.
C4_SkipSemantics ==
  \A i \in 1..Len(ScrapeTargets) :
    (~ScrapeTargets[i].url \/ ScrapeTargets[i].scraper = NoScraper) =>
      /\ ScrapeTargets[i].name \notin fetched
      /\ ChangesFor(ScrapeTargets[i].name) = <<>>
      /\ i <= Len(results) =>
           /\ results[i].status = "skip"
           /\ updated[i].pricing = PrevPricing(ScrapeTargets[i].name)

\* SmartStop Self Storage, stored with a price, has been skipped.
C4_Witness ==
  /\ Len(results) >= 4
  /\ PrevValue("SmartStop Self Storage", "10x10") = 120
  /\ updated[4].pricing["10x10"] = 120
  /\ changes # <<>>

\* C5 as stated: every competitor of the previous snapshot appears in the written
\* snapshot with all its fields other than pricing as they were.
C5_EveryPreviousCompetitorKept ==
  (pc = "done" /\ before.kind = "json") =>
    \A n \in 1..Len(before.competitors) :
      \E m \in 1..Len(file.competitors) :
        Metadata(file.competitors[m]) = Metadata(before.competitors[n])

\* C5, amended: every configured competitor named in the previous snapshot is in
\* the written snapshot once, at its configured position, with all fields other
\* than pricing equal to those of its last entry in the previous snapshot, and
\* with the pricing the run settled on.
C5_ConfiguredMetadataKept ==
  (pc = "done" /\ before.kind = "json") =>
    \A i \in 1..Len(ScrapeTargets) :
      LET name == ScrapeTargets[i].name
      IN PrevPlaces(name) # {} =>
           /\ Len(file.competitors) = Len(ScrapeTargets)
           /\ Metadata(file.competitors[i]) =
                Metadata(before.competitors[SetMax(PrevPlaces(name))])
           /\ file.competitors[i]["pricing"] = updated[i].pricing

\* Lockaway Storage was stored with an address and prices; the run wrote it back
\* with the address and other prices.
C5_Witness ==
  /\ pc = "done"
  /\ PrevPlaces("Lockaway Storage") # {}
  /\ file.competitors[1]["address"] = "addr-1"
  /\ PrevValue("Lockaway Storage", "10x15") = 89
  /\ file.competitors[1]["pricing"]["10x15"] = None

\* C6: no run aborts: whatever the store and the pages, main() processes every
\* configured competitor, writes the store and returns 0, a missing or corrupt
\* store counting as no prior data.
C6_NeverAborts ==
  /\ pc # "aborted"
  /\ exit \in {None, 0}
  /\ pc = "done" => (file.kind = "json" /\ Len(file.competitors) = Len(ScrapeTargets))
  /\ (pc \in {"loaded", "loop", "write"} /\ before.kind \in {"missing", "corrupt"}) =>
       (data.competitors = <<>> /\ existing = EmptyDict)

\* C7: a page that came back without failure (empty text included) and pairs no
\* dimension with a price gives an all-None pricing table, which replaces the
\* previous pricing, every size that had a value being reported as a change.
C7_NoMatchIsSuccess ==
  (/\ pc = "loop"
   /\ idx > 1
   /\ ~Skipped(ScrapeTargets[idx - 1])
   /\ lastResp.ok
   /\ Observations(ScrapeTargets[idx - 1].scraper, lastResp.html) = <<>>) =>
    LET name == ScrapeTargets[idx - 1].name
    IN /\ results[idx - 1] = ScrapeOk(EmptyPricing)
       /\ updated[idx - 1].pricing = EmptyPricing
       /\ \A size \in SizeSet :
            PrevValue(name, size) # None =>
              \E n \in 1..Len(changes) :
                changes[n] = Change(name, size, PrevValue(name, size), None)

\* C8: a second run on the first run's store, every extraction coming out as in
\* the first run, detects no change and writes the same competitors and pricing.
C8_SecondRunIdempotent ==
  (pc = "done" /\ run >= 2) =>
    /\ changes = <<>>
    /\ file.competitors = before.competitors

\* A second run finished in which one competitor was extracted with a price and
\* another failed.
C8_Witness ==
  /\ pc = "done"
  /\ run = 2
  /\ results = replay
  /\ \E i \in 1..Len(results) : results[i].status = "ok" /\ results[i].pricing # EmptyPricing
  /\ \E i \in 1..Len(results) : results[i].status = "none"

\* C9: when a run is killed at any point, the store is either as it was before the
\* run or the complete new snapshot.
C9_StoreOldOrNew ==
  pc = "killed" =>
    \/ file = before
    \/ file.kind = "json" /\ file.lastUpdated = now
                          /\ Len(file.competitors) = Len(ScrapeTargets)

\* C10: after a run from a well-formed or missing store, every competitor of the
\* written snapshot has a pricing table with exactly the five canonical keys,
\* each an integer or None.
C10_FiveKeys ==
  (pc = "done" /\ WellFormedFile(before)) =>
    \A n \in 1..Len(file.competitors) :
      /\ "pricing" \in DOMAIN file.competitors[n]
      /\ DOMAIN file.competitors[n]["pricing"] = SizeSet
      /\ \A size \in SizeSet :
           file.competitors[n]["pricing"][size] \in Nat \cup {None}

\* A run from a stored snapshot finished with a skipped competitor, a failed one,
\* an extracted one with a price, and competitors the store did not hold.
C10_Witness ==
  /\ pc = "done"
  /\ before.kind = "json"
  /\ WellFormedFile(before)
  /\ PrevPlaces("Lockaway Storage") # {}
  /\ \E i \in 1..Len(results) : results[i].status = "none"
  /\ \E i \in 1..Len(results) : results[i].status = "ok" /\ results[i].pricing # EmptyPricing
  /\ \E i \in 1..Len(results) : results[i].status = "skip"
  /\ \E i \in 1..Len(ScrapeTargets) : PrevPlaces(ScrapeTargets[i].name) = {}

====
